---------------------------- MODULE Spec2Model ----------------------------
(***************************************************************************)
(* Three programs of the course repository, each with its own              *)
(* specification:                                                          *)
(*   SpecBlog  - the Flask blog API of modulo_13 (JWT auth, posts,         *)
(*               comments, registration)                                   *)
(*   SpecLogin - SistemaLogin of modulo_9 (registration, login, blocking)  *)
(*   SpecConta - ContaBancaria of modulo_9 (deposit, withdraw, transfer)   *)
(* Python strings are sequences of one-character strings, so that len,     *)
(* strip, lower and the e-mail regular expression are computed.            *)
(***************************************************************************)
EXTENDS Integers, Sequences, FiniteSets, TLC

VARIABLES
    \* ---- blog API (sqlite tables and the HTTP exchange) ----
    users,          \* rows of table users
    posts,          \* rows of table posts
    comments,       \* rows of table comments
    seq,            \* sqlite_sequence: last AUTOINCREMENT id per table
    utcnow,         \* the server clock, in minutes
    req,            \* the request being served, NoRequest between requests
    resp,           \* its response: status code and token returned
    pre,            \* the tables when that request arrived
    \* ---- SistemaLogin ----
    usuarios,       \* SistemaLogin.usuarios: name -> Usuario fields
    usuario_logado, \* SistemaLogin.usuario_logado
    agora,          \* datetime.now(), in minutes
    chamada,        \* the last method call and its arguments
    retorno,        \* what the call returned, and the exception it let escape
    antes,          \* usuarios and usuario_logado when the call was made
    \* ---- ContaBancaria ----
    contas,         \* account number -> fields of the ContaBancaria object
    operacao,       \* the last method call on an account
    resultado,      \* what it returned
    anterior        \* contas when the call was made

blogVars  == <<users, posts, comments, seq, utcnow, req, resp, pre>>
loginVars == <<usuarios, usuario_logado, agora, chamada, retorno, antes>>
contaVars == <<contas, operacao, resultado, anterior>>
vars      == <<blogVars, loginVars, contaVars>>

-----------------------------------------------------------------------------
(* Python values *)

\* None where a string is expected (never equal to a real string, whose
\* elements are single characters)
None == <<"None">>
\* None / NULL where an integer is expected
NULL == -1

\* bool(s) of an Optional[str]
Truthy(s) == s # None /\ s # <<>>

\* str.isspace for one character
IsSpace(c) == c \in {" ", "\n", "\t"}

RECURSIVE LStrip(_)
LStrip(s) == IF s # <<>> /\ IsSpace(Head(s)) THEN LStrip(Tail(s)) ELSE s

RECURSIVE RStrip(_)
RStrip(s) ==
    IF s # <<>> /\ IsSpace(s[Len(s)]) THEN RStrip(SubSeq(s, 1, Len(s) - 1)) ELSE s

\* str.strip()
strip(s) == RStrip(LStrip(s))

\* str.lower() for one character
LowerChar(c) ==
    CASE c = "A" -> "a"
      [] c = "B" -> "b"
      [] c = "C" -> "c"
      [] c = "X" -> "x"
      [] OTHER   -> c

\* str.lower()
lower(s) == [i \in 1..Len(s) |-> LowerChar(s[i])]


-----------------------------------------------------------------------------
(* The blog API: configuration *)

JWT_SECRET == "troque_esta_chave_para_producao"
JWT_EXP_MINUTES == 60

\* The instants at which the clock is read: a token issued at the first has
\* expired at the second.
Instants == {0, JWT_EXP_MINUTES}
\* No more rows than these are ever inserted in posts and in comments (the
\* e-mails of the requests bound the rows of users).
MaxPosts == 1
MaxComments == 1

\* EMAIL_REGEX = ^[^@\s]+@[^@\s]+\.[^@\s]+$ matched on the whole of t
\* (three non-empty runs without "@" or white space, around "@" and ".")
EmailBody(t) ==
    \E i \in 2..Len(t) : \E j \in (i + 2)..(Len(t) - 1) :
        /\ t[i] = "@"
        /\ t[j] = "."
        /\ \A k \in 1..Len(t) : k # i => (t[k] # "@" /\ ~IsSpace(t[k]))

\* EMAIL_REGEX.match(s): without re.MULTILINE "$" matches at the end of the
\* string and also just before a newline that ends it
EMAIL_REGEX_match(s) ==
    \/ EmailBody(s)
    \/ (Len(s) > 0 /\ s[Len(s)] = "\n" /\ EmailBody(SubSeq(s, 1, Len(s) - 1)))

\* generate_password_hash / check_password_hash of werkzeug: the hash is a
\* value other than the password that only the same password verifies
generate_password_hash(senha) == <<"pbkdf2">> \o senha
check_password_hash(hash, senha) == hash = <<"pbkdf2">> \o senha

-----------------------------------------------------------------------------
(* Tokens and the Authorization header *)

NoToken    == [kind |-> "none", key |-> "", sub |-> NULL, iat |-> 0, exp |-> 0]
EmptyToken == [kind |-> "empty", key |-> "", sub |-> NULL, iat |-> 0, exp |-> 0]
Garbage    == [kind |-> "garbage", key |-> "", sub |-> NULL, iat |-> 0, exp |-> 0]
NoPayload  == [sub |-> NULL, iat |-> NULL, exp |-> NULL]

\* the token create_token(user_id) returns when the clock reads t
create_token_at(user_id, t) ==
    [kind |-> "jwt", key |-> JWT_SECRET, sub |-> user_id,
     iat |-> t, exp |-> t + JWT_EXP_MINUTES]

create_token(user_id) == create_token_at(user_id, utcnow)

\* a decode_token that does not look at "exp"
decode_token_ignoring_exp(token) ==
    IF token.kind # "jwt" \/ token.key # JWT_SECRET
    THEN NoPayload
    ELSE [sub |-> token.sub, iat |-> token.iat, exp |-> token.exp]

\* jwt.decode raises InvalidTokenError for a malformed token or a bad
\* signature, ExpiredSignatureError when exp <= now; both give None
decode_token(token) ==
    IF token.kind # "jwt" \/ token.key # JWT_SECRET
    THEN NoPayload
    ELSE IF token.exp <= utcnow
    THEN NoPayload
    ELSE [sub |-> token.sub, iat |-> token.iat, exp |-> token.exp]

\* auth.startswith("Bearer ") ? the rest of the header : None
get_auth_header_token(r) ==
    IF r.auth.scheme = "Bearer" THEN r.auth.token ELSE NoToken

\* "if not token": None or the empty string
TokenMissing(token) == token.kind \in {"none", "empty"}

\* the tables, as one value
DB == [users |-> users, posts |-> posts, comments |-> comments, seq |-> seq]

\* a response that leaves the tables alone
Reply(status) == [status |-> status, token |-> NoToken, db |-> DB]

-----------------------------------------------------------------------------
(* Auth helpers and routes *)

\* the decorator: whether the wrapped handler runs, and with which user id
jwt_required(r) ==
    LET token == get_auth_header_token(r) IN
    IF TokenMissing(token)
    THEN [run |-> FALSE, status |-> 401, user_id |-> NULL]
    ELSE LET payload == decode_token(token) IN
         IF payload = NoPayload
         THEN [run |-> FALSE, status |-> 401, user_id |-> NULL]
         ELSE [run |-> TRUE, status |-> 200, user_id |-> payload.sub]

\* INSERT INTO users: the UNIQUE constraint on email raises, AUTOINCREMENT
\* hands out the next id
InsertUser(nome, email, senha_hash) ==
    IF \E u \in users : u.email = email
    THEN [ok |-> FALSE, db |-> DB]
    ELSE [ok |-> TRUE,
          db |-> [DB EXCEPT
                    !.users = @ \cup {[id |-> seq.users + 1, nome |-> nome,
                                       email |-> email, senha_hash |-> senha_hash,
                                       created_at |-> utcnow]},
                    !.seq.users = @ + 1]]

\* a register that looks the e-mail up as it was sent, not normalized
register_without_normalizing(r) ==
    LET nome == r.data.nome
        email == r.data.email
        senha == r.data.senha
    IN
    IF ~r.is_json THEN Reply(400)
    ELSE IF ~Truthy(nome) \/ Len(strip(nome)) < 2 THEN Reply(400)
    ELSE IF ~Truthy(email) \/ ~EMAIL_REGEX_match(email) THEN Reply(400)
    ELSE IF ~Truthy(senha) \/ Len(senha) < 6 THEN Reply(400)
    ELSE IF \E u \in users : u.email = email THEN Reply(409)
    ELSE LET ins == InsertUser(strip(nome), email, generate_password_hash(senha)) IN
         IF ~ins.ok THEN Reply(500)
         ELSE [status |-> 201, token |-> create_token(ins.db.seq.users),
               db |-> ins.db]

\* POST /auth/register (and POST /cadastrar of the two smaller apps, which
\* differ only in returning no token)
register(r) ==
    LET nome == r.data.nome
        email == r.data.email
        senha == r.data.senha
    IN
    IF ~r.is_json THEN Reply(400)
    ELSE IF ~Truthy(nome) \/ Len(strip(nome)) < 2 THEN Reply(400)
    ELSE IF ~Truthy(email) \/ ~EMAIL_REGEX_match(email) THEN Reply(400)
    ELSE IF ~Truthy(senha) \/ Len(senha) < 6 THEN Reply(400)
    ELSE LET email_norm == strip(lower(email)) IN
         IF \E u \in users : u.email = email_norm THEN Reply(409)
         ELSE LET ins == InsertUser(strip(nome), email_norm,
                                    generate_password_hash(senha)) IN
              IF ~ins.ok THEN Reply(500)
              ELSE [status |-> 201, token |-> create_token(ins.db.seq.users),
                    db |-> ins.db]

\* POST /auth/login
login(r) ==
    LET email == r.data.email
        senha == r.data.senha
    IN
    IF ~r.is_json THEN Reply(400)
    ELSE IF ~Truthy(email) \/ ~Truthy(senha) THEN Reply(400)
    ELSE LET rows == {u \in users : u.email = strip(lower(email))} IN
         IF rows = {} THEN Reply(401)
         ELSE LET row == CHOOSE u \in rows : TRUE IN
              IF ~check_password_hash(row.senha_hash, senha) THEN Reply(401)
              ELSE [status |-> 200, token |-> create_token(row.id), db |-> DB]

\* POST /posts (the created_at column of posts and of comments, which no
\* handler here reads, is left out of the rows)
create_post(r, user_id) ==
    LET title == r.data.title
        content == r.data.content
    IN
    IF ~r.is_json THEN Reply(400)
    ELSE IF ~Truthy(title) \/ Len(strip(title)) < 3 THEN Reply(400)
    ELSE IF ~Truthy(content) \/ Len(strip(content)) < 5 THEN Reply(400)
    ELSE [status |-> 201, token |-> NoToken,
          db |-> [DB EXCEPT
                    !.posts = @ \cup {[id |-> seq.posts + 1, author_id |-> user_id,
                                       title |-> strip(title),
                                       content |-> strip(content),
                                       updated_at |-> NULL]},
                    !.seq.posts = @ + 1]]

\* UPDATE posts SET ... WHERE id = post_id
UpdatePostRow(p, title, content) ==
    [p EXCEPT
       !.title = IF Truthy(title) /\ Len(strip(title)) >= 3 THEN strip(title) ELSE @,
       !.content = IF Truthy(content) /\ Len(strip(content)) >= 5
                   THEN strip(content) ELSE @,
       !.updated_at = utcnow]

\* an update_post without the author check
update_post_by_anyone(r, user_id) ==
    LET rows == {p \in posts : p.id = r.id} IN
    IF ~r.is_json THEN Reply(400)
    ELSE IF rows = {} THEN Reply(404)
    ELSE LET row == CHOOSE p \in rows : TRUE
             title == r.data.title
             content == r.data.content
         IN
         IF ~(Truthy(title) /\ Len(strip(title)) >= 3)
            /\ ~(Truthy(content) /\ Len(strip(content)) >= 5)
         THEN Reply(400)
         ELSE [status |-> 200, token |-> NoToken,
               db |-> [DB EXCEPT !.posts = (@ \ {row})
                                    \cup {UpdatePostRow(row, title, content)}]]

\* PUT /posts/<post_id>
update_post(r, user_id) ==
    LET rows == {p \in posts : p.id = r.id} IN
    IF ~r.is_json THEN Reply(400)
    ELSE IF rows = {} THEN Reply(404)
    ELSE LET row == CHOOSE p \in rows : TRUE
             title == r.data.title
             content == r.data.content
         IN
         IF row.author_id # user_id THEN Reply(403)
         ELSE IF ~(Truthy(title) /\ Len(strip(title)) >= 3)
                 /\ ~(Truthy(content) /\ Len(strip(content)) >= 5)
         THEN Reply(400)
         ELSE [status |-> 200, token |-> NoToken,
               db |-> [DB EXCEPT !.posts = (@ \ {row})
                                    \cup {UpdatePostRow(row, title, content)}]]

\* a delete_post without the author check
delete_post_by_anyone(r, user_id) ==
    LET rows == {p \in posts : p.id = r.id} IN
    IF rows = {} THEN Reply(404)
    ELSE [status |-> 200, token |-> NoToken, db |-> [DB EXCEPT !.posts = @ \ rows]]

\* DELETE /posts/<post_id>; the connection never sets PRAGMA foreign_keys, so
\* ON DELETE CASCADE does not run and the post's comments stay
delete_post(r, user_id) ==
    LET rows == {p \in posts : p.id = r.id} IN
    IF rows = {} THEN Reply(404)
    ELSE LET row == CHOOSE p \in rows : TRUE IN
         IF row.author_id # user_id THEN Reply(403)
         ELSE [status |-> 200, token |-> NoToken, db |-> [DB EXCEPT !.posts = @ \ rows]]

\* POST /posts/<post_id>/comments
create_comment(r, user_id) ==
    LET content == r.data.content IN
    IF ~r.is_json THEN Reply(400)
    ELSE IF ~Truthy(content) \/ Len(strip(content)) < 1 THEN Reply(400)
    ELSE IF ~\E p \in posts : p.id = r.id THEN Reply(404)
    ELSE [status |-> 201, token |-> NoToken,
          db |-> [DB EXCEPT
                    !.comments = @ \cup {[id |-> seq.comments + 1, post_id |-> r.id,
                                          author_id |-> user_id,
                                          content |-> strip(content)]},
                    !.seq.comments = @ + 1]]

\* a delete_comment that lets only the comment's author through
delete_comment_author_only(r, user_id) ==
    LET rows == {c \in comments : c.id = r.id} IN
    IF rows = {} THEN Reply(404)
    ELSE LET row == CHOOSE c \in rows : TRUE IN
         IF user_id # row.author_id THEN Reply(403)
         ELSE [status |-> 200, token |-> NoToken, db |-> [DB EXCEPT !.comments = @ \ rows]]

\* DELETE /comments/<comment_id>
delete_comment(r, user_id) ==
    LET rows == {c \in comments : c.id = r.id} IN
    IF rows = {} THEN Reply(404)
    ELSE LET row == CHOOSE c \in rows : TRUE
             post == {p \in posts : p.id = row.post_id}
             post_author == IF post # {} THEN (CHOOSE p \in post : TRUE).author_id
                            ELSE NULL
         IN
         IF user_id # row.author_id /\ user_id # post_author THEN Reply(403)
         ELSE [status |-> 200, token |-> NoToken, db |-> [DB EXCEPT !.comments = @ \ rows]]

\* GET /me
me(r, user_id) ==
    IF \E u \in users : u.id = user_id THEN Reply(200) ELSE Reply(404)

\* the handler Flask dispatches the route to, under its decorator
Handle(r) ==
    IF r.route = "register" THEN register(r)
    ELSE IF r.route = "login" THEN login(r)
    ELSE LET a == jwt_required(r) IN
         IF ~a.run THEN Reply(a.status)
         ELSE CASE r.route = "create_post"    -> create_post(r, a.user_id)
                [] r.route = "update_post"    -> update_post(r, a.user_id)
                [] r.route = "delete_post"    -> delete_post(r, a.user_id)
                [] r.route = "create_comment" -> create_comment(r, a.user_id)
                [] r.route = "delete_comment" -> delete_comment(r, a.user_id)
                [] r.route = "me"             -> me(r, a.user_id)

-----------------------------------------------------------------------------
(* The requests the clients send *)

NomeAl     == <<"A", "l">>
NomeCurto  == <<"a">>
EmailAB    == <<"a", "@", "b", ".", "c">>
EmailABUp  == <<"A", "@", "B", ".", "C">>
EmailABNl  == <<"a", "@", "b", ".", "c", "\n">>
EmailABSp  == <<" ", "a", "@", "b", ".", "c">>
EmailXY    == <<"x", "@", "y", ".", "z">>
EmailSemAt == <<"a", "b", ".", "c">>
SenhaOk    == <<"s", "e", "c", "r", "e", "t">>
SenhaCurta == <<"1", "2", "3", "4", "5">>
TitleAbc   == <<" ", "a", "b", "c", " ">>
TitleAbcd  == <<"a", "b", "c", "d">>
TitleCurto == <<" ", "a", "b", " ">>
TextHello  == <<"h", "e", "l", "l", "o">>
TextWorld  == <<"w", "o", "r", "l", "d", "!">>
TextCurto  == <<"h", "e", "y", " ", " ">>

NoData == [nome |-> None, email |-> None, senha |-> None,
           title |-> None, content |-> None]

RegisterBodies ==
    {[NoData EXCEPT !.nome = NomeAl, !.email = e, !.senha = SenhaOk] :
        e \in {EmailAB, EmailABUp, EmailABNl, EmailABSp, EmailXY, EmailSemAt,
               None}}
    \cup {[NoData EXCEPT !.nome = NomeCurto, !.email = EmailAB, !.senha = SenhaOk],
          [NoData EXCEPT !.nome = NomeAl, !.email = EmailAB, !.senha = SenhaCurta]}

LoginBodies ==
    {[NoData EXCEPT !.email = e, !.senha = s] :
        e \in {EmailABUp, EmailXY}, s \in {SenhaOk, SenhaCurta}}
    \cup {[NoData EXCEPT !.email = EmailAB]}

CreatePostBodies ==
    {[NoData EXCEPT !.title = TitleAbc, !.content = TextHello],
     [NoData EXCEPT !.title = TitleCurto, !.content = TextHello],
     [NoData EXCEPT !.title = TitleAbc, !.content = TextCurto]}

UpdatePostBodies ==
    {[NoData EXCEPT !.title = TitleAbcd, !.content = TextWorld],
     [NoData EXCEPT !.title = TitleCurto, !.content = TextCurto]}

CommentBodies ==
    {[NoData EXCEPT !.content = TextHello], [NoData EXCEPT !.content = <<" ">>]}

\* what the route reads of the body: nothing (DELETE, GET) or a JSON object
Bodies(route) ==
    CASE route = "register"       -> RegisterBodies
      [] route = "login"          -> LoginBodies
      [] route = "create_post"    -> CreatePostBodies
      [] route = "update_post"    -> UpdatePostBodies
      [] route = "create_comment" -> CommentBodies
      [] OTHER                    -> {NoData}

\* the <int:...> of the path, for the routes that have one
PathIds(route) ==
    CASE route \in {"update_post", "delete_post", "create_comment"} -> 1..MaxPosts
      [] route = "delete_comment" -> 1..MaxComments
      [] OTHER -> {0}

\* a token for the first user, signed with another key
Forged == {[create_token(u.id) EXCEPT !.key = "outra_chave"] : u \in {v \in users : v.id = 1}}

\* Authorization headers: absent, another scheme, "Bearer " alone, a token
\* that is no JWT, a forged one
BadAuths ==
    {[scheme |-> "", token |-> NoToken], [scheme |-> "Basic", token |-> Garbage],
     [scheme |-> "Bearer", token |-> EmptyToken],
     [scheme |-> "Bearer", token |-> Garbage]}
    \cup {[scheme |-> "Bearer", token |-> t] : t \in Forged}

\* ... or a token the server issued (by now it may have expired). A user gets
\* one from register, and from login at any later instant, and neither
\* changes a table for it: the tokens the clients can hold are these.
Issued ==
    {create_token_at(ut[1].id, ut[2]) :
        ut \in {x \in users \X Instants :
                  x[1].created_at <= x[2] /\ x[2] <= utcnow}}

IssuedAuths == {[scheme |-> "Bearer", token |-> t] : t \in Issued}

\* the routes whose handler looks at the body
ReadsBody(route) ==
    route \in {"register", "login", "create_post", "update_post", "create_comment"}

\* the well-formed body of a route that reads one
GoodBody(route) ==
    CASE route = "create_post"    -> [NoData EXCEPT !.title = TitleAbc,
                                                     !.content = TextHello]
      [] route = "update_post"    -> [NoData EXCEPT !.title = TitleAbcd,
                                                     !.content = TextWorld]
      [] route = "create_comment" -> [NoData EXCEPT !.content = TextHello]
      [] OTHER                    -> NoData

Request(route, a, j, i, d) ==
    [route |-> route, auth |-> a, is_json |-> j, id |-> i, data |-> d]

\* With a token the server issued: Content-Type application/json with each
\* body, and a request that is not JSON (a DELETE or GET carries no body).
\* With any other Authorization header: the request that would change a table
\* if its handler ran.
Requests(route) ==
    {Request(route, a, TRUE, i, d) :
        a \in IssuedAuths, i \in PathIds(route),
        d \in IF ReadsBody(route) THEN Bodies(route) ELSE {}}
    \cup {Request(route, a, FALSE, i, NoData) :
             a \in IssuedAuths, i \in PathIds(route)}
    \cup {Request(route, a, ReadsBody(route), i, GoodBody(route)) :
             a \in BadAuths, i \in PathIds(route)}

\* the requests of the two routes without the decorator carry no header
OpenRequests(route) ==
    {Request(route, [scheme |-> "", token |-> NoToken], TRUE, 0, d) :
        d \in Bodies(route)}
    \cup {Request(route, [scheme |-> "", token |-> NoToken], FALSE, 0, NoData)}

-----------------------------------------------------------------------------
(* The blog API as a state machine *)

NoRequest == [route |-> "", auth |-> [scheme |-> "", token |-> NoToken],
              is_json |-> FALSE, id |-> 0, data |-> NoData]

\* the tables after init_db() on a fresh file
EmptyDB == [users |-> {}, posts |-> {}, comments |-> {},
            seq |-> [users |-> 0, posts |-> 0, comments |-> 0]]

NoResponse == [status |-> 0, token |-> NoToken]

InitBlogVars ==
    /\ users = {} /\ posts = {} /\ comments = {}
    /\ seq = [users |-> 0, posts |-> 0, comments |-> 0]
    /\ utcnow = 0
    /\ req = NoRequest /\ resp = NoResponse /\ pre = EmptyDB

\* Flask serves request r: the handler runs to its return and commits
Serve(r) ==
    LET out == Handle(r) IN
    /\ out.db.seq.posts <= MaxPosts
    /\ out.db.seq.comments <= MaxComments
    /\ req' = r
    /\ resp' = [status |-> out.status, token |-> out.token]
    /\ pre' = DB
    /\ users' = out.db.users
    /\ posts' = out.db.posts
    /\ comments' = out.db.comments
    /\ seq' = out.db.seq
    /\ UNCHANGED <<utcnow, loginVars, contaVars>>

\* one action per route; requests are served one at a time
Register      == req = NoRequest /\ \E r \in OpenRequests("register") : Serve(r)
Login         == req = NoRequest /\ \E r \in OpenRequests("login") : Serve(r)
CreatePost    == req = NoRequest /\ \E r \in Requests("create_post") : Serve(r)
UpdatePost    == req = NoRequest /\ \E r \in Requests("update_post") : Serve(r)
DeletePost    == req = NoRequest /\ \E r \in Requests("delete_post") : Serve(r)
CreateComment == req = NoRequest /\ \E r \in Requests("create_comment") : Serve(r)
DeleteComment == req = NoRequest /\ \E r \in Requests("delete_comment") : Serve(r)
Me            == req = NoRequest /\ \E r \in Requests("me") : Serve(r)

\* the response is sent and the request context torn down
close_conn ==
    /\ req # NoRequest
    /\ req' = NoRequest /\ resp' = NoResponse /\ pre' = EmptyDB
    /\ UNCHANGED <<users, posts, comments, seq, utcnow, loginVars, contaVars>>

\* time passes between two requests
TickBlog ==
    /\ req = NoRequest
    /\ utcnow' \in {t \in Instants : t > utcnow}
    /\ UNCHANGED <<users, posts, comments, seq, req, resp, pre, loginVars, contaVars>>

NextBlog ==
    \/ Register \/ Login \/ CreatePost \/ UpdatePost \/ DeletePost
    \/ CreateComment \/ DeleteComment \/ Me \/ close_conn \/ TickBlog

-----------------------------------------------------------------------------
(* Properties of the blog API *)

Protected == {"create_post", "update_post", "delete_post", "create_comment",
              "delete_comment", "me"}

\* the request carries no Bearer token
CarriesNoBearer(r) ==
    r.auth.scheme # "Bearer" \/ r.auth.token.kind \in {"none", "empty"}

\* the request carries a token the server issued and that has not expired
CarriesValidToken(r) ==
    /\ r.auth.scheme = "Bearer"
    /\ r.auth.token \in Issued
    /\ r.auth.token.exp > utcnow

\* the request carries a token the server issued, which has expired
CarriesExpiredToken(r) ==
    /\ r.auth.scheme = "Bearer"
    /\ r.auth.token \in Issued
    /\ r.auth.token.exp <= utcnow

TablesUnchanged == DB = pre

\* the normalized e-mail of the claim: lower-cased, stripped
Normalized(email) == strip(lower(email))

\* a registration request that passes the handler's validation
WellFormedRegistration(r) ==
    /\ r.is_json
    /\ Truthy(r.data.nome) /\ Len(strip(r.data.nome)) >= 2
    /\ Truthy(r.data.email) /\ EMAIL_REGEX_match(r.data.email)
    /\ Truthy(r.data.senha) /\ Len(r.data.senha) >= 6

\* C1: a JWT-protected route answers 401 and leaves the three tables as they
\* were when the request carries no Bearer token, or a token that is invalid
\* (not one the server issued) or expired.
C1_Unauthorized401 ==
    (req.route \in Protected /\ ~CarriesValidToken(req))
        => (resp.status = 401 /\ TablesUnchanged)

\* C1 witness: a well-formed POST /posts with an expired token got 401.
C1_Witness ==
    /\ req.route = "create_post"
    /\ CarriesExpiredToken(req)
    /\ req.is_json /\ req.data.title = TitleAbc /\ req.data.content = TextHello
    /\ resp.status = 401

\* the post a PUT or DELETE /posts/<id> of a non-author is aimed at
OthersPost(r) ==
    {p \in pre.posts : p.id = r.id /\ p.author_id # r.auth.token.sub}

\* C2 as stated: PUT /posts/<id> by an authenticated user other than the
\* author answers 403 and leaves the post as it was, whatever the request.
C2_Original ==
    (req.route = "update_post" /\ CarriesValidToken(req) /\ OthersPost(req) # {})
        => (resp.status = 403 /\ OthersPost(req) \subseteq posts)

\* C2 amended: PUT /posts/<id> by an authenticated user other than the
\* author leaves the post's title, content and updated_at as they were; it
\* answers 403 when the request is JSON and 400 when it is not.
C2_OnlyAuthorUpdates ==
    (req.route = "update_post" /\ CarriesValidToken(req) /\ OthersPost(req) # {})
        => /\ resp.status = (IF req.is_json THEN 403 ELSE 400)
           /\ OthersPost(req) \subseteq posts

\* C2 witness: a non-author sent a valid JSON update and got 403.
C2_Witness ==
    /\ req.route = "update_post" /\ CarriesValidToken(req) /\ OthersPost(req) # {}
    /\ req.is_json /\ req.data.title = TitleAbcd
    /\ resp.status = 403

\* C3: DELETE /posts/<id> by an authenticated user other than the author
\* answers 403 and the post stays; a post that disappears was deleted by a
\* DELETE /posts/<id> carrying a valid token of its author.
C3_OnlyAuthorDeletes ==
    /\ (req.route = "delete_post" /\ CarriesValidToken(req) /\ OthersPost(req) # {})
          => (resp.status = 403 /\ OthersPost(req) \subseteq posts)
    /\ \A p \in pre.posts :
          (\A q \in posts : q.id # p.id)
              => /\ req.route = "delete_post" /\ req.id = p.id
                 /\ CarriesValidToken(req)
                 /\ req.auth.token.sub = p.author_id

\* C3 witness: a non-author's DELETE got 403 and the post is still there.
C3_Witness ==
    /\ req.route = "delete_post" /\ CarriesValidToken(req) /\ OthersPost(req) # {}
    /\ resp.status = 403
    /\ OthersPost(req) \subseteq posts

\* whether user uid may delete comment c: its author, or the author of the
\* post it belongs to
MayDeleteComment(uid, c) ==
    \/ uid = c.author_id
    \/ \E p \in pre.posts : p.id = c.post_id /\ p.author_id = uid

\* C4: DELETE /comments/<id> by the comment's author or by the author of its
\* post answers 200 and removes the comment; by any other authenticated user
\* it answers 403 and the comment stays.
C4_CommentDeletion ==
    (req.route = "delete_comment" /\ CarriesValidToken(req))
        => \A c \in pre.comments :
              c.id = req.id
                  => IF MayDeleteComment(req.auth.token.sub, c)
                     THEN resp.status = 200 /\ (\A d \in comments : d.id # c.id)
                     ELSE resp.status = 403 /\ c \in comments

\* C4 witness: the author of the post deleted a comment somebody else wrote.
C4_Witness ==
    /\ req.route = "delete_comment" /\ CarriesValidToken(req)
    /\ \E c \in pre.comments :
          /\ c.id = req.id
          /\ c.author_id # req.auth.token.sub
          /\ MayDeleteComment(req.auth.token.sub, c)
          /\ c \notin comments
    /\ resp.status = 200

\* the registration is for an e-mail that, normalized, a user already has
DuplicateRegistration(r) ==
    /\ r.route = "register"
    /\ Truthy(r.data.email)
    /\ \E u \in pre.users : Normalized(u.email) = Normalized(r.data.email)

\* no two users have the same normalized e-mail
UniqueEmails ==
    \A u, v \in users : Normalized(u.email) = Normalized(v.email) => u = v

\* C5 as stated: no two users share a normalized e-mail, and a registration
\* whose normalized e-mail already belongs to a user answers 409 and adds no
\* user.
C5_Original ==
    /\ UniqueEmails
    /\ DuplicateRegistration(req) => (resp.status = 409 /\ users = pre.users)

\* C5 amended: no two users share a normalized e-mail, and a registration
\* whose normalized e-mail already belongs to a user adds no user; it answers
\* 409 when the request passes validation (JSON, nome, email, senha) and 400
\* when it does not.
C5_UniqueEmails ==
    /\ UniqueEmails
    /\ DuplicateRegistration(req)
          => /\ users = pre.users
             /\ resp.status = (IF WellFormedRegistration(req) THEN 409 ELSE 400)

\* C5 witness: with a@b.c registered, a registration as "A@B.C" got 409.
C5_Witness ==
    /\ DuplicateRegistration(req)
    /\ req.data.email = EmailABUp
    /\ \E u \in pre.users : u.email = EmailAB
    /\ resp.status = 409

-----------------------------------------------------------------------------
(* SistemaLogin (modulo_9): users, password rules, login and blocking *)

MAX_TENTATIVAS == 3
TEMPO_BLOQUEIO == 15

\* The instants at which datetime.now() is read: an account blocked at one of
\* them is tried again 1, 14, 15 and 16 minutes later.
Relogio == {0, TEMPO_BLOQUEIO - 1, TEMPO_BLOQUEIO, TEMPO_BLOQUEIO + 1}

\* str.isupper, str.islower, str.isdigit for one character
IsUpperChar(c) ==
    c \in {"A", "B", "C", "D", "E", "F", "G", "H", "I", "J", "K", "L", "M", "N",
           "O", "P", "Q", "R", "S", "T", "U", "V", "W", "X", "Y", "Z"}
IsLowerChar(c) ==
    c \in {"a", "b", "c", "d", "e", "f", "g", "h", "i", "j", "k", "l", "m", "n",
           "o", "p", "q", "r", "s", "t", "u", "v", "w", "x", "y", "z"}
IsDigitChar(c) == c \in {"0", "1", "2", "3", "4", "5", "6", "7", "8", "9"}
\* c in "!@#$%^&*()-_=+[]{}|;:,.<>?"
IsSpecialChar(c) ==
    c \in {"!", "@", "#", "$", "%", "^", "&", "*", "(", ")", "-", "_", "=", "+",
           "[", "]", "{", "}", "|", ";", ":", ",", ".", "<", ">", "?"}

\* any(pred(c) for c in senha)
AnyChar(P(_), senha) == \E i \in 1..Len(senha) : P(senha[i])

\* Usuario._hashear_senha: SHA-256, a value other than the password that
\* only the same password reproduces
hashear_senha(senha) == <<"sha256">> \o senha

\* Usuario.__init__ when the clock reads t; tempo_desbloqueio is an attribute
\* only bloquear creates
Usuario(usuario, senha, email, t) ==
    [usuario |-> usuario, senha_hash |-> hashear_senha(senha), email |-> email,
     ativo |-> TRUE, bloqueado |-> FALSE, data_bloqueio |-> NULL,
     tempo_desbloqueio |-> NULL, tentativas_falhas |-> 0,
     data_ultimo_acesso |-> NULL, data_criacao |-> t]

verificar_senha(user, senha) == user.senha_hash = hashear_senha(senha)

\* a bloquear that records the time and forgets the flag
bloquear_sem_marcar(user, minutos) ==
    [user EXCEPT !.data_bloqueio = agora, !.tempo_desbloqueio = minutos]

\* Usuario.bloquear
bloquear(user, minutos) ==
    [user EXCEPT !.bloqueado = TRUE, !.data_bloqueio = agora,
                 !.tempo_desbloqueio = minutos]

desbloquear(user) ==
    [user EXCEPT !.bloqueado = FALSE, !.data_bloqueio = NULL,
                 !.tentativas_falhas = 0]

\* a verificar_bloqueio that unblocks only after the time has been exceeded
verificar_bloqueio_strict(user) ==
    IF ~user.bloqueado THEN [bloqueada |-> FALSE, user |-> user]
    ELSE IF agora - user.data_bloqueio > user.tempo_desbloqueio
    THEN [bloqueada |-> FALSE, user |-> desbloquear(user)]
    ELSE [bloqueada |-> TRUE, user |-> user]

\* Usuario.verificar_bloqueio: the answer, and the user as the call leaves it
verificar_bloqueio(user) ==
    IF ~user.bloqueado THEN [bloqueada |-> FALSE, user |-> user]
    ELSE IF agora - user.data_bloqueio >= user.tempo_desbloqueio
    THEN [bloqueada |-> FALSE, user |-> desbloquear(user)]
    ELSE [bloqueada |-> TRUE, user |-> user]

registrar_tentativa_falha(user) == [user EXCEPT !.tentativas_falhas = @ + 1]

registrar_acesso_bem_sucedido(user) ==
    [user EXCEPT !.tentativas_falhas = 0, !.data_ultimo_acesso = agora]

\* a validation that forgets the special character
validar_sem_especial(senha) ==
    (IF Len(senha) < 8 THEN <<"Minimo 8 caracteres">> ELSE <<>>)
    \o (IF ~AnyChar(IsUpperChar, senha) THEN <<"Letra maiuscula">> ELSE <<>>)
    \o (IF ~AnyChar(IsLowerChar, senha) THEN <<"Letra minuscula">> ELSE <<>>)
    \o (IF ~AnyChar(IsDigitChar, senha) THEN <<"Um numero">> ELSE <<>>)

\* SistemaLogin._validar_requisitos_senha: the requirements not met
validar_requisitos_senha(senha) ==
    (IF Len(senha) < 8 THEN <<"Minimo 8 caracteres">> ELSE <<>>)
    \o (IF ~AnyChar(IsUpperChar, senha) THEN <<"Letra maiuscula">> ELSE <<>>)
    \o (IF ~AnyChar(IsLowerChar, senha) THEN <<"Letra minuscula">> ELSE <<>>)
    \o (IF ~AnyChar(IsDigitChar, senha) THEN <<"Um numero">> ELSE <<>>)
    \o (IF ~AnyChar(IsSpecialChar, senha) THEN <<"Caractere especial">> ELSE <<>>)

\* self.usuarios[usuario] = user
Put(us, usuario, user) ==
    [n \in DOMAIN us \cup {usuario} |-> IF n = usuario THEN user ELSE us[n]]

\* the outcome of a method: the value returned, the exception raised inside
\* it, the exception that reaches the caller, and the object's fields
Outcome(valor, excecao, propagada, us, logado) ==
    [valor |-> valor, excecao |-> excecao, propagada |-> propagada,
     usuarios |-> us, usuario_logado |-> logado]

\* SistemaLogin.registrar_usuario on the dictionary us when the clock reads t;
\* SenhaFracaError is caught in the method
registrar_usuario(us, logado, usuario, senha, email, t) ==
    IF validar_requisitos_senha(senha) # <<>>
    THEN Outcome(FALSE, "SenhaFracaError", "", us, logado)
    ELSE IF usuario \in DOMAIN us THEN Outcome(FALSE, "", "", us, logado)
    ELSE IF usuario = <<>> \/ Len(usuario) < 3 THEN Outcome(FALSE, "", "", us, logado)
    ELSE Outcome(TRUE, "", "", Put(us, usuario, Usuario(usuario, senha, email, t)),
                 logado)

\* the try block of fazer_login: what it returns or raises
fazer_login_try(us, logado, usuario, senha) ==
    IF usuario \notin DOMAIN us
    THEN Outcome(FALSE, "UsuarioNaoEncontradoError", "UsuarioNaoEncontradoError",
                 us, logado)
    ELSE IF ~us[usuario].ativo THEN Outcome(FALSE, "", "", us, logado)
    ELSE LET vb == verificar_bloqueio(us[usuario])
             user == vb.user
         IN
         IF vb.bloqueada
         THEN Outcome(FALSE, "ContaBloqueadaError", "ContaBloqueadaError",
                      Put(us, usuario, user), logado)
         ELSE IF ~verificar_senha(user, senha)
         THEN LET failed == registrar_tentativa_falha(user) IN
              IF failed.tentativas_falhas >= MAX_TENTATIVAS
              THEN Outcome(FALSE, "ContaBloqueadaError", "ContaBloqueadaError",
                           Put(us, usuario, bloquear(failed, TEMPO_BLOQUEIO)), logado)
              ELSE Outcome(FALSE, "CredenciaisInvalidasError",
                           "CredenciaisInvalidasError",
                           Put(us, usuario, failed), logado)
         ELSE Outcome(TRUE, "", "",
                      Put(us, usuario, registrar_acesso_bem_sucedido(user)), usuario)

\* SistemaLogin.fazer_login: the except clauses print the error and return
\* False, so nothing reaches the caller
fazer_login(us, logado, usuario, senha) ==
    LET t == fazer_login_try(us, logado, usuario, senha) IN
    IF t.propagada \in {"UsuarioNaoEncontradoError", "ContaBloqueadaError",
                        "CredenciaisInvalidasError"}
    THEN [t EXCEPT !.valor = FALSE, !.propagada = ""]
    ELSE t

\* SistemaLogin.fazer_logout
fazer_logout(us, logado) ==
    IF logado = None THEN Outcome(FALSE, "", "", us, logado)
    ELSE Outcome(TRUE, "", "", us, None)

-----------------------------------------------------------------------------
(* SistemaLogin as a state machine *)

Admin     == <<"a", "d", "m", "i", "n">>
Joao      == <<"j", "o", "a", "o">>
Maria     == <<"m", "a", "r", "i", "a">>
Pedro     == <<"p", "e", "d", "r", "o">>
NomeAb    == <<"a", "b">>
Fantasma  == <<"f", "a", "n", "t", "a", "s", "m", "a">>
SenhaAdmin == <<"A", "d", "m", "i", "n", "@", "1", "2", "3">>
SenhaJoao  == <<"J", "o", "a", "o", "@", "4", "5", "6">>
SenhaMaria == <<"M", "a", "r", "i", "a", "@", "7", "8", "9">>
SenhaPedro == <<"P", "e", "d", "r", "o", "@", "2", "0", "2", "5", "!">>
SenhaSemMaiuscula == <<"p", "e", "d", "r", "o", "@", "2", "0", "2", "5">>
SenhaSemMinuscula == <<"P", "E", "D", "R", "O", "@", "2", "0", "2", "5">>
SenhaSemNumero    == <<"P", "e", "d", "r", "o", "@", "a", "b", "c", "d">>
SenhaSemEspecial  == <<"P", "e", "d", "r", "o", "1", "2", "3", "4", "5">>
SenhaComTil       == <<"P", "e", "d", "r", "o", "~", "2", "0", "2", "5">>
SenhaSeteChars    == <<"P", "e", "@", "1", "a", "b", "c">>
SenhaErrada       == <<"e", "r", "r", "a", "d", "a", "1">>
SemEmail == "None"

\* what the callers pass to registrar_usuario and to fazer_login
NomesRegistro == {Pedro, NomeAb, <<>>, Maria}
SenhasRegistro ==
    {SenhaPedro, SenhaSemMaiuscula, SenhaSemMinuscula, SenhaSemNumero,
     SenhaSemEspecial, SenhaComTil, SenhaSeteChars}
NomesLogin == {Maria, Pedro, Fantasma}
SenhasLogin == {SenhaMaria, SenhaPedro, SenhaErrada}

NenhumaChamada == [metodo |-> "", usuario |-> None, senha |-> None]
NenhumRetorno  == [valor |-> FALSE, excecao |-> "", propagada |-> ""]
NadaAntes      == [usuarios |-> <<>>, usuario_logado |-> None]

\* SistemaLogin.__init__ and _criar_usuarios_padrao, when the clock reads 0
UsuariosPadrao ==
    LET u1 == registrar_usuario(<<>>, None, Admin, SenhaAdmin, "admin@email.com", 0)
        u2 == registrar_usuario(u1.usuarios, None, Joao, SenhaJoao,
                                "joao@email.com", 0)
        u3 == registrar_usuario(u2.usuarios, None, Maria, SenhaMaria,
                                "maria@email.com", 0)
    IN u3.usuarios

InitLoginVars ==
    /\ agora = 0
    /\ usuarios = UsuariosPadrao
    /\ usuario_logado = None
    /\ chamada = NenhumaChamada /\ retorno = NenhumRetorno /\ antes = NadaAntes

\* the caller makes call c and gets outcome out
Call(c, out) ==
    /\ chamada' = c
    /\ retorno' = [valor |-> out.valor, excecao |-> out.excecao,
                   propagada |-> out.propagada]
    /\ antes' = [usuarios |-> usuarios, usuario_logado |-> usuario_logado]
    /\ usuarios' = out.usuarios
    /\ usuario_logado' = out.usuario_logado
    /\ UNCHANGED <<agora, blogVars, contaVars>>

RegistrarUsuario ==
    /\ chamada = NenhumaChamada
    /\ \E usuario \in NomesRegistro, senha \in SenhasRegistro :
          Call([metodo |-> "registrar_usuario", usuario |-> usuario, senha |-> senha],
               registrar_usuario(usuarios, usuario_logado, usuario, senha,
                                 SemEmail, agora))

FazerLogin ==
    /\ chamada = NenhumaChamada
    /\ \E usuario \in NomesLogin, senha \in SenhasLogin :
          Call([metodo |-> "fazer_login", usuario |-> usuario, senha |-> senha],
               fazer_login(usuarios, usuario_logado, usuario, senha))

FazerLogout ==
    /\ chamada = NenhumaChamada
    /\ Call([metodo |-> "fazer_logout", usuario |-> None, senha |-> None],
            fazer_logout(usuarios, usuario_logado))

\* the caller drops the value returned and goes on (the menu loop, the
\* sequence of examples)
ContinuarLogin ==
    /\ chamada # NenhumaChamada
    /\ chamada' = NenhumaChamada /\ retorno' = NenhumRetorno /\ antes' = NadaAntes
    /\ UNCHANGED <<usuarios, usuario_logado, agora, blogVars, contaVars>>

\* time passes between two calls
TickLogin ==
    /\ chamada = NenhumaChamada
    /\ agora' \in {t \in Relogio : t > agora}
    /\ UNCHANGED <<usuarios, usuario_logado, chamada, retorno, antes, blogVars,
                   contaVars>>

NextLogin ==
    \/ RegistrarUsuario \/ FazerLogin \/ FazerLogout \/ ContinuarLogin \/ TickLogin

-----------------------------------------------------------------------------
(* Properties of SistemaLogin *)

\* the user a fazer_login call names, before and after the call
Alvo      == chamada.usuario
AlvoAntes == antes.usuarios[Alvo]
AlvoAgora == usuarios[Alvo]

LoginDeRegistrado ==
    chamada.metodo = "fazer_login" /\ Alvo \in DOMAIN antes.usuarios

\* the account was blocked less than TEMPO_BLOQUEIO minutes before the call
AindaBloqueada ==
    AlvoAntes.bloqueado /\ agora - AlvoAntes.data_bloqueio < TEMPO_BLOQUEIO

\* the account was blocked TEMPO_BLOQUEIO minutes or more before the call
BloqueioVencido ==
    AlvoAntes.bloqueado /\ agora - AlvoAntes.data_bloqueio >= TEMPO_BLOQUEIO

SenhaCorreta == AlvoAntes.senha_hash = hashear_senha(chamada.senha)

\* wrong-password logins in a row before the call, on an account that can be
\* tried
FalhasSeguidas == IF AlvoAntes.bloqueado THEN 0 ELSE AlvoAntes.tentativas_falhas

C7_UnblockAfterTime ==
    (LoginDeRegistrado /\ BloqueioVencido)
        => /\ ~AlvoAgora.bloqueado
           /\ AlvoAgora.data_bloqueio = NULL
           /\ IF SenhaCorreta
              THEN /\ retorno.valor = TRUE
                   /\ usuario_logado = Alvo
                   /\ AlvoAgora.tentativas_falhas = 0
              ELSE /\ retorno.valor = FALSE
                   /\ usuario_logado = antes.usuario_logado
                   /\ AlvoAgora.tentativas_falhas = 1

\* C7 witness: exactly TEMPO_BLOQUEIO minutes after the block the correct
\* password logged the user in.
C7_Witness ==
    /\ LoginDeRegistrado /\ BloqueioVencido /\ SenhaCorreta
    /\ agora - AlvoAntes.data_bloqueio = TEMPO_BLOQUEIO
    /\ retorno.valor = TRUE /\ usuario_logado = Alvo

\* C8: fazer_login raises UsuarioNaoEncontradoError to its caller when the
\* user does not exist, ContaBloqueadaError when the account is blocked and
\* CredenciaisInvalidasError when the password is wrong.
C8_FailuresRaise ==
    chamada.metodo = "fazer_login"
        => IF Alvo \notin DOMAIN antes.usuarios
           THEN retorno.propagada = "UsuarioNaoEncontradoError"
           ELSE IF AindaBloqueada
           THEN retorno.propagada = "ContaBloqueadaError"
           ELSE ~SenhaCorreta
                   => retorno.propagada \in {"CredenciaisInvalidasError",
                                             "ContaBloqueadaError"}

\* the five requirements on a password
SenhaForte(senha) ==
    /\ Len(senha) >= 8
    /\ \E i \in 1..Len(senha) : IsUpperChar(senha[i])
    /\ \E i \in 1..Len(senha) : IsLowerChar(senha[i])
    /\ \E i \in 1..Len(senha) : IsDigitChar(senha[i])
    /\ \E i \in 1..Len(senha) : IsSpecialChar(senha[i])

-----------------------------------------------------------------------------
(* ContaBancaria (modulo_9): deposits, withdrawals, transfers *)

\* self.limite_diario, and the 3 withdrawals a day of sacar
LimiteDiario == 5000
LimiteOperacoes == 3

\* No account's historico grows beyond this many entries.
MaxHistorico == 4

\* ContaBancaria._registrar_operacao (the entry's date is left out)
registrar_operacao(conta, tipo, valor, saldo_resultante) ==
    [conta EXCEPT !.historico =
        Append(@, [tipo |-> tipo, valor |-> valor, saldo |-> saldo_resultante])]

\* ContaBancaria.__init__
ContaBancaria(titular, numero_conta, saldo_inicial) ==
    registrar_operacao(
        [titular |-> titular, numero_conta |-> numero_conta,
         saldo |-> saldo_inicial, historico |-> <<>>,
         limite_diario |-> LimiteDiario, operacoes_hoje |-> 0],
        "ABERTURA", saldo_inicial, saldo_inicial)

\* what a method of one account gives: the value returned, the exception
\* raised and caught inside it, and the account as the call leaves it
Feito(valor, excecao, conta) == [valor |-> valor, excecao |-> excecao, conta |-> conta]

\* ContaBancaria.depositar
depositar(conta, valor) ==
    IF valor < 0 THEN Feito(FALSE, "DepositoNegativoError", conta)
    ELSE IF valor = 0 THEN Feito(FALSE, "", conta)
    ELSE LET c == [conta EXCEPT !.saldo = @ + valor] IN
         Feito(TRUE, "", registrar_operacao(c, "DEPOSITO", valor, c.saldo))

\* a sacar that does not compare the value with the balance
sacar_sem_verificar_saldo(conta, valor) ==
    IF valor < 0 THEN Feito(FALSE, "", conta)
    ELSE IF valor = 0 THEN Feito(FALSE, "", conta)
    ELSE IF conta.operacoes_hoje >= LimiteOperacoes
    THEN Feito(FALSE, "LimiteExcedidoError", conta)
    ELSE IF valor > conta.limite_diario THEN Feito(FALSE, "", conta)
    ELSE LET c == [conta EXCEPT !.saldo = @ - valor, !.operacoes_hoje = @ + 1] IN
         Feito(TRUE, "", registrar_operacao(c, "SAQUE", valor, c.saldo))

\* ContaBancaria.sacar
sacar(conta, valor) ==
    IF valor < 0 THEN Feito(FALSE, "", conta)
    ELSE IF valor = 0 THEN Feito(FALSE, "", conta)
    ELSE IF conta.operacoes_hoje >= LimiteOperacoes
    THEN Feito(FALSE, "LimiteExcedidoError", conta)
    ELSE IF valor > conta.saldo THEN Feito(FALSE, "SaldoInsuficienteError", conta)
    ELSE IF valor > conta.limite_diario THEN Feito(FALSE, "", conta)
    ELSE LET c == [conta EXCEPT !.saldo = @ - valor, !.operacoes_hoje = @ + 1] IN
         Feito(TRUE, "", registrar_operacao(c, "SAQUE", valor, c.saldo))

\* ContaBancaria.transferir from account o to account d of cs (d may be o):
\* the value returned and the accounts as the call leaves them
transferir(cs, o, d, valor) ==
    LET s == sacar(cs[o], valor)
        cs1 == [cs EXCEPT ![o] = s.conta]
    IN
    IF ~s.valor THEN [valor |-> FALSE, contas |-> cs1]
    ELSE LET dep == depositar(cs1[d], valor)
             cs2 == [cs1 EXCEPT ![d] = dep.conta]
         IN
         IF ~dep.valor
         THEN [valor |-> FALSE,
               contas |-> [cs2 EXCEPT ![o].saldo = @ + valor]]
         ELSE LET cs3 == [cs2 EXCEPT ![o] = registrar_operacao(
                              @, "TRANSFERENCIA ENVIADA", valor, @.saldo)]
              IN
              [valor |-> TRUE,
               contas |-> [cs3 EXCEPT ![d] = registrar_operacao(
                              @, "TRANSFERENCIA RECEBIDA", valor, @.saldo)]]

-----------------------------------------------------------------------------
(* ContaBancaria as a state machine *)

\* the two accounts of the examples
Numeros == {"001-5", "002-5"}
\* the balances an account is opened with, and the values the calls pass
SaldosIniciais == {0, 1000}
Valores == {-500, 0, 300, 5200}

NenhumaOperacao == [metodo |-> "", conta |-> "", destino |-> "", valor |-> 0]
NenhumResultado == [valor |-> FALSE]

InitContaVars ==
    /\ \E s1 \in SaldosIniciais, s2 \in SaldosIniciais :
          contas = [n \in Numeros |->
                      IF n = "001-5" THEN ContaBancaria("Joao Silva", n, s1)
                      ELSE ContaBancaria("Maria Santos", n, s2)]
    /\ operacao = NenhumaOperacao
    /\ resultado = NenhumResultado
    /\ anterior = <<>>

\* the caller makes call op, which returns valor and leaves the accounts cs
Operar(op, valor, cs) ==
    /\ \A n \in Numeros : Len(cs[n].historico) <= MaxHistorico
    /\ operacao' = op
    /\ resultado' = [valor |-> valor]
    /\ anterior' = contas
    /\ contas' = cs
    /\ UNCHANGED <<blogVars, loginVars>>

Depositar ==
    /\ operacao = NenhumaOperacao
    /\ \E n \in Numeros, v \in Valores :
          LET f == depositar(contas[n], v) IN
          Operar([metodo |-> "depositar", conta |-> n, destino |-> "", valor |-> v],
                 f.valor, [contas EXCEPT ![n] = f.conta])

Sacar ==
    /\ operacao = NenhumaOperacao
    /\ \E n \in Numeros, v \in Valores :
          LET f == sacar(contas[n], v) IN
          Operar([metodo |-> "sacar", conta |-> n, destino |-> "", valor |-> v],
                 f.valor, [contas EXCEPT ![n] = f.conta])

Transferir ==
    /\ operacao = NenhumaOperacao
    /\ \E o \in Numeros, d \in Numeros, v \in Valores :
          LET t == transferir(contas, o, d, v) IN
          Operar([metodo |-> "transferir", conta |-> o, destino |-> d, valor |-> v],
                 t.valor, t.contas)

\* the caller drops the value returned and goes on to its next statement
ContinuarConta ==
    /\ operacao # NenhumaOperacao
    /\ operacao' = NenhumaOperacao
    /\ resultado' = NenhumResultado
    /\ anterior' = <<>>
    /\ UNCHANGED <<contas, blogVars, loginVars>>

NextConta == Depositar \/ Sacar \/ Transferir \/ ContinuarConta

-----------------------------------------------------------------------------
(* The three specifications: in each, one program runs and the objects of   *)
(* the other two do not exist.                                              *)

SemBlog ==
    /\ users = {} /\ posts = {} /\ comments = {}
    /\ seq = [users |-> 0, posts |-> 0, comments |-> 0]
    /\ utcnow = 0
    /\ req = NoRequest /\ resp = NoResponse /\ pre = EmptyDB

SemLogin ==
    /\ agora = 0 /\ usuarios = <<>> /\ usuario_logado = None
    /\ chamada = NenhumaChamada /\ retorno = NenhumRetorno /\ antes = NadaAntes

SemConta ==
    /\ contas = <<>> /\ operacao = NenhumaOperacao
    /\ resultado = NenhumResultado /\ anterior = <<>>

InitBlog  == InitBlogVars /\ SemLogin /\ SemConta
SpecBlog  == InitBlog /\ [][NextBlog]_vars

InitLogin == SemBlog /\ InitLoginVars /\ SemConta
SpecLogin == InitLogin /\ [][NextLogin]_vars

InitConta == SemBlog /\ SemLogin /\ InitContaVars
SpecConta == InitConta /\ [][NextConta]_vars

=============================================================================
